---------------------------- MODULE Spec2Model ----------------------------
(***************************************************************************)
(* A model of gsuite-mcp: the retry executor of utils/retry.py             *)
(* (retry_with_backoff and is_retryable_error) and the construction of the *)
(* service facades (GmailService, CalendarService, PeopleService) with the *)
(* fake identity of auth/fake_credentials.py.                              *)
(*                                                                         *)
(* Durations are whole numbers of one time unit and the backoff factor is  *)
(* a whole number, so delay arithmetic is exact.                           *)
(***************************************************************************)
EXTENDS Integers, Sequences, FiniteSets, TLC

VARIABLES
    policy,          \* the decorator's arguments, fixed when func is wrapped
    pc,              \* where the wrapper is: idle, loop, returned, raised
    args,            \* the arguments of the call in progress
    attempt,         \* the loop index of wrapper
    delay,           \* the local delay of wrapper
    last_exception,  \* the local last_exception of wrapper
    outcome,         \* what the call gave its caller: a value or an error
    events,          \* this call's invocations, warnings and sleeps, in order
    calls,           \* calls of the wrapper started so far
    prevRetried,     \* an earlier call of this wrapper slept at least once
    classified,      \* the last use of is_retryable_error: error and answer
    env,             \* the process environment read by the constructors
    facade,          \* the facade constructed last, or the error it raised
    fakeCreds,       \* the FakeCredentials object constructed last
    headers,         \* the header map of the request the credentials last signed
    listing,         \* the facade method in progress: its arguments, locals and requests
    oplog,           \* the errors the facade methods logged during this call
    tool,            \* the last call of call_tool: its input, log and result
    auth,            \* the OAuth2Authenticator, its two files and what its calls did
    rmw,             \* the read-modify-write facade method in progress
    server           \* the GSuiteMCPServer constructed last and the objects it made

retryVars == <<policy, pc, args, attempt, delay, last_exception, outcome,
               events, calls, prevRetried>>
facadeVars == <<env, facade>>
fakeVars == <<fakeCreds, headers>>
opVars == <<listing, oplog>>
appVars == <<tool, auth, rmw, server>>
vars == <<policy, pc, args, attempt, delay, last_exception, outcome, events,
          calls, prevRetried, classified, env, facade, fakeCreds, headers,
          listing, oplog, tool, auth, rmw, server>>

(***************************************************************************)
(* Bounds of the model.                                                    *)
(***************************************************************************)
MaxRetriesBound == 3
MaxCalls == 2
MaxMailbox == 4
MaxPage == 2
MaxResultsBound == 2
MaxOpRetries == 2
MaxIssued == 3
MaxFacadeRequests == 2

(***************************************************************************)
(* Values.                                                                 *)
(***************************************************************************)
NoneVal == [kind |-> "None"]

\* Statuses an HttpError may carry: around every edge of the test
\* 400 <= status < 500 and status != 429, and the statuses the docstring names.
Statuses == {304, 400, 404, 429, 499, 500, 502, 503}

\* The wider range the classification helper is tried on.
ClassifyStatuses == (300..304) \cup (398..405) \cup (427..431) \cup (498..505)

HttpError(s) == [kind |-> "HttpError", status |-> s]

\* Exceptions that are not HttpError: one with no status at all, and one of
\* another type that happens to carry resp.status.
OtherErrors == {[kind |-> "OtherError", name |-> "ConnectionError"],
                [kind |-> "OtherError", name |-> "DuckError", status |-> 503]}

ReturnValues == {"ok", "other"}

\* What one invocation of the wrapped operation can do.
FuncOutcomes == {[kind |-> "ok", value |-> v] : v \in ReturnValues}
                \cup {HttpError(s) : s \in Statuses}
                \cup OtherErrors

\* Positional and keyword arguments a caller may pass.
ArgValues == {[pos |-> <<>>, kw |-> {}],
              [pos |-> <<"self", "is:unread">>, kw |-> {<<"max_results", "10">>}]}

DefaultPolicy == [max_retries |-> 5, initial_delay |-> 1, backoff_factor |-> 2]

Policies == [max_retries : -1..MaxRetriesBound,
             initial_delay : {1, 3},
             backoff_factor : {1, 2}]
            \cup {DefaultPolicy}

(***************************************************************************)
(* utils/retry.py                                                          *)
(***************************************************************************)

is_retryable_errorNoTypeCheck(error) ==
    "status" \in DOMAIN error /\ error.status \in {429, 500, 503}

\* is_retryable_error: an HttpError whose status is 429, 500 or 503.
is_retryable_error(error) ==
    IF error.kind = "HttpError"
    THEN error.status \in {429, 500, 503}
    ELSE FALSE

CaughtByDuckTyping(e) == e.kind # "ok" /\ "status" \in DOMAIN e

\* except HttpError as e: only an HttpError enters the handler.
CaughtByHandler(e) == e.kind = "HttpError"

IsClientErrorOffByOne(status_code) ==
    400 < status_code /\ status_code < 500 /\ status_code # 429

\* if 400 <= status_code < 500 and status_code != 429: raise
IsClientError(status_code) ==
    400 <= status_code /\ status_code < 500 /\ status_code # 429

IsLastAttemptEarly(k, max_retries) == k + 1 >= max_retries

IsLastAttemptNever(k, max_retries) == FALSE

\* if attempt == max_retries: raise
IsLastAttempt(k, max_retries) == k = max_retries

NextDelayAdds(d, backoff_factor) == d + backoff_factor

\* delay *= backoff_factor
NextDelay(d, backoff_factor) == d * backoff_factor

ReraisedAsServerError(e) == [e EXCEPT !.status = 500]

\* a bare raise in the handler: the exception being handled, as it is
Reraised(e) == e

PassedArgsPositionalOnly(a) == [a EXCEPT !.kw = {}]

\* func(*args, **kwargs): the operation gets the caller's arguments
PassedArgs(a) == a

ReturnedNothing(v) == "None"

\* return func(*args, **kwargs): the operation's value, as it is
Returned(v) == v

\* for attempt in range(max_retries + 1): the body runs for this index
InRange(k, max_retries) == 0 <= k /\ k < max_retries + 1

\* One invocation of the operation, as the log records it; n is its number
\* within the call, which tells one raised error object from another.
Invocation(a, o, n) == [ev |-> "invoke", args |-> PassedArgs(a), outcome |-> o, n |-> n]

NInvocations(log) == Len(SelectSeq(log, LAMBDA x : x.ev = "invoke"))

\* An error as the caller sees it: the error and the invocation that raised it.
Raise(e, n) == [kind |-> "raised", error |-> Reraised(e), n |-> n]

\* Lines 46-48: a call of wrapper starts with fresh locals.
CallStep(a) ==
    /\ pc \in {"idle", "returned", "raised"}
    /\ calls < MaxCalls
    /\ pc' = "loop"
    /\ args' = a
    /\ attempt' = 0
    /\ delay' = policy.initial_delay
    /\ last_exception' = NoneVal
    /\ outcome' = NoneVal
    /\ events' = <<>>
    /\ calls' = calls + 1
    /\ prevRetried' = (prevRetried \/ \E i \in 1..Len(events) : events[i].ev = "sleep")
    /\ UNCHANGED policy

\* A call of a wrapped function that is no facade method.
Call(a) ==
    /\ CallStep(a)
    /\ UNCHANGED <<classified, env, facade, fakeVars, opVars, appVars>>

\* Lines 50-71: one iteration of the loop, the operation doing o.
AttemptStep(o) ==
    /\ pc = "loop"
    /\ InRange(attempt, policy.max_retries)
    /\ LET n == NInvocations(events) + 1
           inv == Invocation(args, o, n)
       IN \/ /\ o.kind = "ok"
             /\ pc' = "returned"
             /\ outcome' = [kind |-> "returned", value |-> Returned(o.value)]
             /\ events' = Append(events, inv)
             /\ UNCHANGED <<attempt, delay, last_exception>>
          \/ /\ o.kind # "ok"
             /\ ~CaughtByHandler(o)
             /\ pc' = "raised"
             /\ outcome' = [kind |-> "raised", error |-> o, n |-> n]
             /\ events' = Append(events, inv)
             /\ UNCHANGED <<attempt, delay, last_exception>>
          \/ /\ o.kind # "ok"
             /\ CaughtByHandler(o)
             /\ IsClientError(o.status)
             /\ pc' = "raised"
             /\ last_exception' = [error |-> o, n |-> n]
             /\ outcome' = Raise(o, n)
             /\ events' = Append(events, inv)
             /\ UNCHANGED <<attempt, delay>>
          \/ /\ o.kind # "ok"
             /\ CaughtByHandler(o)
             /\ ~IsClientError(o.status)
             /\ IsLastAttempt(attempt, policy.max_retries)
             /\ pc' = "raised"
             /\ last_exception' = [error |-> o, n |-> n]
             /\ outcome' = Raise(o, n)
             /\ events' = Append(events, inv)
             /\ UNCHANGED <<attempt, delay>>
          \/ /\ o.kind # "ok"
             /\ CaughtByHandler(o)
             /\ ~IsClientError(o.status)
             /\ ~IsLastAttempt(attempt, policy.max_retries)
             /\ last_exception' = [error |-> o, n |-> n]
             /\ events' = events \o
                    << inv,
                       [ev |-> "warn", attempt |-> attempt + 1,
                        total |-> policy.max_retries + 1,
                        status |-> o.status, delay |-> delay],
                       [ev |-> "sleep", delay |-> delay] >>
             /\ delay' = NextDelay(delay, policy.backoff_factor)
             /\ attempt' = attempt + 1
             /\ UNCHANGED <<pc, outcome>>
    /\ UNCHANGED <<policy, args, calls, prevRetried>>

\* One iteration of the loop around a function that is no facade method.
Attempt(o) ==
    /\ AttemptStep(o)
    /\ UNCHANGED <<classified, env, facade, fakeVars, opVars, appVars>>

\* Lines 73-77: the loop ended without returning or raising, which happens
\* only when range(max_retries + 1) is empty; the operation is invoked once
\* outside the try.
FinalAttempt(o) ==
    /\ pc = "loop"
    /\ ~InRange(attempt, policy.max_retries)
    /\ LET n == NInvocations(events) + 1
       IN IF last_exception # NoneVal
          THEN /\ pc' = "raised"
               /\ outcome' = [kind |-> "raised", error |-> last_exception.error,
                              n |-> last_exception.n]
               /\ UNCHANGED events
          ELSE /\ events' = Append(events, Invocation(args, o, n))
               /\ pc' = IF o.kind = "ok" THEN "returned" ELSE "raised"
               /\ outcome' = IF o.kind = "ok"
                             THEN [kind |-> "returned", value |-> Returned(o.value)]
                             ELSE [kind |-> "raised", error |-> o, n |-> n]
    /\ UNCHANGED <<policy, args, attempt, delay, last_exception, calls,
                   prevRetried, classified, env, facade, fakeVars, opVars,
                   appVars>>

\* A caller's own use of is_retryable_error, at any moment.
Classify(e) ==
    /\ classified' = [error |-> e, retryable |-> is_retryable_error(e)]
    /\ UNCHANGED <<retryVars, env, facade, fakeVars, opVars, appVars>>

\* No environment variable set, and no facade constructed yet.
NoEnv == [ISH_MODE |-> "<unset>", ISH_BASE_URL |-> "<unset>", ISH_USER |-> "<unset>"]
NoFacade == [kind |-> "None"]

\* No fake credentials constructed, no request signed, no facade method run.
InitRest ==
    /\ fakeCreds = NoneVal
    /\ headers = NoneVal
    /\ listing = NoneVal
    /\ oplog = <<>>
    /\ tool = NoneVal
    /\ auth = NoneVal
    /\ rmw = NoneVal
    /\ server = NoneVal

InitRetry ==
    /\ policy \in Policies
    /\ pc = "idle"
    /\ args = NoneVal
    /\ attempt = 0
    /\ delay = 0
    /\ last_exception = NoneVal
    /\ outcome = NoneVal
    /\ events = <<>>
    /\ calls = 0
    /\ prevRetried = FALSE
    /\ classified = NoneVal

Init ==
    /\ InitRetry
    /\ InitRest
    /\ env = NoEnv
    /\ facade = NoFacade

Next ==
    \/ \E a \in ArgValues : Call(a)
    \/ \E o \in FuncOutcomes : Attempt(o)
    \/ \E o \in FuncOutcomes : FinalAttempt(o)

Spec == Init /\ [][Next]_vars

(***************************************************************************)
(* The wrapper with max_retries >= 0 around an operation every invocation  *)
(* of which ends, and with waits that end: an iteration of the loop that   *)
(* can be taken is taken.                                                  *)
(***************************************************************************)
TermPolicies == [max_retries : 0..MaxRetriesBound,
                 initial_delay : {DefaultPolicy.initial_delay},
                 backoff_factor : {DefaultPolicy.backoff_factor}]

TermOutcomes == {[kind |-> "ok", value |-> "ok"], HttpError(404), HttpError(429),
                 HttpError(503), [kind |-> "OtherError", name |-> "ConnectionError"]}

InitTerm ==
    /\ InitRetry
    /\ policy \in TermPolicies
    /\ InitRest
    /\ env = NoEnv
    /\ facade = NoFacade

NextTerm ==
    \/ \E a \in ArgValues : Call(a)
    \/ \E o \in TermOutcomes : Attempt(o)

SpecTerm ==
    /\ InitTerm
    /\ [][NextTerm]_vars
    /\ WF_vars(\E o \in TermOutcomes : Attempt(o))

(***************************************************************************)
(* The classification helper used by a caller beside a running wrapper:    *)
(* the same wrapper under a short policy, and is_retryable_error applied   *)
(* to any error at any moment.                                             *)
(***************************************************************************)
ClassifyInputs == {HttpError(s) : s \in ClassifyStatuses} \cup OtherErrors

ShortPolicies == [max_retries : {-1, 1}, initial_delay : {1}, backoff_factor : {2}]

ShortOutcomes == {HttpError(429), HttpError(404), [kind |-> "ok", value |-> "ok"]}

InitClassify ==
    /\ InitRetry
    /\ policy \in ShortPolicies
    /\ InitRest
    /\ env = NoEnv
    /\ facade = NoFacade

NextClassify ==
    \/ Call([pos |-> <<>>, kw |-> {}])
    \/ \E o \in ShortOutcomes : Attempt(o)
    \/ \E o \in ShortOutcomes : FinalAttempt(o)
    \/ \E e \in ClassifyInputs : Classify(e)

SpecClassify == InitClassify /\ [][NextClassify]_vars


(***************************************************************************)
(* auth/fake_credentials.py and the constructors of services/gmail.py,     *)
(* services/calendar.py and services/people.py, which differ only in the   *)
(* API name and version they build.                                        *)
(***************************************************************************)

\* A parameter left at None, and an environment variable that is not set.
NoneStr == "<None>"
Unset == "<unset>"
NoCredentials == [kind |-> "None"]

\* Python truth of an optional string: None and "" are false.
Truthy(x) == x \notin {NoneStr, ""}

\* Python truth of an optional credentials object: only None is false.
TruthyObject(c) == c # NoCredentials

\* os.getenv(name, default) over the environment e.
getenv(e, name, default) == IF e[name] = Unset THEN default ELSE e[name]

\* str.lower() on the values ISH_MODE takes here.
Lower(x) ==
    CASE x \in {"true", "True", "TRUE"} -> "true"
      [] x \in {"false", "FALSE"} -> "false"
      [] OTHER -> x

IshModeEnabledAnyValue(e) == getenv(e, "ISH_MODE", "") # ""

\* ish_mode = os.getenv("ISH_MODE", "").lower() == "true"
IshModeEnabled(e) == Lower(getenv(e, "ISH_MODE", "")) = "true"

FakeCredentialsUserFirst(e, token, user) ==
    [kind |-> "FakeCredentials",
     token |-> IF Truthy(user) THEN "user:" \o user
               ELSE IF Truthy(token) THEN token
               ELSE LET ish_user == getenv(e, "ISH_USER", NoneStr)
                    IN IF Truthy(ish_user) THEN "user:" \o ish_user
                       ELSE "user:testuser",
     valid |-> TRUE,
     expired |-> FALSE]

\* FakeCredentials.__init__(token, user) under the environment e.
FakeCredentials(e, token, user) ==
    [kind |-> "FakeCredentials",
     token |-> IF Truthy(token) THEN token
               ELSE IF Truthy(user) THEN "user:" \o user
               ELSE LET ish_user == getenv(e, "ISH_USER", NoneStr)
                    IN IF Truthy(ish_user) THEN "user:" \o ish_user
                       ELSE "user:testuser",
     valid |-> TRUE,
     expired |-> FALSE]

Services == {"gmail", "calendar", "people"}

ApiVersionAlwaysV1(svc) == "v1"

\* The API version each constructor passes to build.
ApiVersion(svc) == IF svc = "calendar" THEN "v3" ELSE "v1"

\* f"{api_base_url}/discovery/v1/apis/<service>/<version>/rest"
DiscoveryUrl(svc, api_base_url) ==
    api_base_url \o "/discovery/v1/apis/" \o svc \o "/" \o ApiVersion(svc) \o "/rest"

\* api_base_url after the check for ish mode via the environment.
EffectiveBaseUrl(e, api_base_url) ==
    IF IshModeEnabled(e) /\ ~Truthy(api_base_url)
    THEN getenv(e, "ISH_BASE_URL", "http://localhost:9000")
    ELSE api_base_url

EffectiveCredentialsTokenFirst(e, credentials, api_base_url, auth_token) ==
    IF Truthy(api_base_url) /\ Truthy(auth_token)
    THEN FakeCredentials(e, auth_token, NoneStr)
    ELSE IF Truthy(api_base_url) /\ ~TruthyObject(credentials)
    THEN FakeCredentials(e, NoneStr, NoneStr)
    ELSE credentials

\* credentials after the synthesis of fake credentials.
EffectiveCredentials(e, credentials, api_base_url, auth_token) ==
    IF Truthy(api_base_url) /\ ~TruthyObject(credentials) /\ ~Truthy(auth_token)
    THEN FakeCredentials(e, NoneStr, NoneStr)
    ELSE IF Truthy(api_base_url) /\ Truthy(auth_token) /\ ~TruthyObject(credentials)
    THEN FakeCredentials(e, auth_token, NoneStr)
    ELSE credentials

\* __init__ of a facade: the object it leaves, or the error it raises, with
\* the calls of build it made and the parameters it was given.
ServiceInit(e, svc, credentials, api_base_url, auth_token) ==
    LET url == EffectiveBaseUrl(e, api_base_url)
        creds == EffectiveCredentials(e, credentials, url, auth_token)
        given == [service |-> svc, credentials |-> credentials,
                  api_base_url |-> api_base_url, auth_token |-> auth_token]
    IN IF ~TruthyObject(creds)
       THEN [kind |-> "ValueError",
             message |-> "credentials are required unless using ish mode",
             builds |-> <<>>,
             given |-> given]
       ELSE IF Truthy(url)
       THEN LET client == [serviceName |-> svc, version |-> ApiVersion(svc),
                           credentials |-> creds,
                           discoveryServiceUrl |-> DiscoveryUrl(svc, url),
                           static_discovery |-> FALSE]
            IN [kind |-> "facade", service |-> svc, _service |-> client,
                _ish_mode |-> TRUE, _api_base_url |-> url,
                builds |-> <<client>>, given |-> given]
       ELSE LET client == [serviceName |-> svc, version |-> ApiVersion(svc),
                           credentials |-> creds]
            IN [kind |-> "facade", service |-> svc, _service |-> client,
                _ish_mode |-> FALSE, _api_base_url |-> NoneStr,
                builds |-> <<client>>, given |-> given]

\* Credentials a caller may pass: none, OAuth credentials, fake credentials.
CredentialValues ==
    {NoCredentials,
     [kind |-> "Credentials", token |-> "ya29.oauth"],
     [kind |-> "FakeCredentials", token |-> "user:testuser", valid |-> TRUE,
      expired |-> FALSE]}

BaseUrlValues == {NoneStr, "", "http://localhost:9000"}
AuthTokenValues == {NoneStr, "", "user:admin"}

Environments ==
    [ISH_MODE : {Unset, "true", "TRUE", "false", "1"},
     ISH_BASE_URL : {Unset, "", "http://localhost:8888"},
     ISH_USER : {Unset, "", "envuser"}]

\* GmailService(...), CalendarService(...) or PeopleService(...).
Construct(svc, credentials, api_base_url, auth_token) ==
    /\ facade' = ServiceInit(env, svc, credentials, api_base_url, auth_token)
    /\ UNCHANGED <<retryVars, classified, env, fakeVars, opVars, appVars>>

InitFacade ==
    /\ InitRetry
    /\ policy = DefaultPolicy
    /\ InitRest
    /\ env \in Environments
    /\ facade = NoFacade

NextFacade ==
    \E svc \in Services, c \in CredentialValues, u \in BaseUrlValues,
       t \in AuthTokenValues : Construct(svc, c, u, t)

SpecFacade == InitFacade /\ [][NextFacade]_vars

(***************************************************************************)
(* auth/fake_credentials.py: the methods of a FakeCredentials object.      *)
(* fakeCreds holds the object, the arguments it was constructed with and   *)
(* the methods called on it since; headers holds the header map a method   *)
(* was given and the map as it left it.                                    *)
(***************************************************************************)

RefreshedExpires(c) == [c EXCEPT !.expired = TRUE, !.valid = FALSE]

\* refresh(request): pass
Refreshed(c) == c

AppliedReplacingAll(c, h, token) == [k \in {"Authorization"} |-> "Bearer " \o c.token]

\* apply(headers, token=None): headers['Authorization'] = f'Bearer {self.token}'
Applied(c, h, token) ==
    [k \in DOMAIN h \cup {"Authorization"} |->
        IF k = "Authorization" THEN "Bearer " \o c.token ELSE h[k]]

FakeTokenValues == {NoneStr, "", "user:alice"}
FakeUserValues == {NoneStr, "", "bob"}

\* Header maps a request may carry before it is signed.
HeaderMaps == {<<>>,
               [Accept |-> "application/json"],
               [Accept |-> "application/json", Authorization |-> "Bearer stale"]}

\* The token argument of apply.
TokenOverrides == {NoneStr, "user:mallory"}

FakeEnvironments ==
    [ISH_MODE : {Unset}, ISH_BASE_URL : {Unset}, ISH_USER : {Unset, "", "charlie"}]

\* FakeCredentials(token=..., user=...)
FakeInit(token, user) ==
    /\ fakeCreds' = [obj |-> FakeCredentials(env, token, user),
                     given |-> [token |-> token, user |-> user],
                     used |-> {}]
    /\ headers' = NoneVal
    /\ UNCHANGED <<retryVars, classified, env, facade, opVars, appVars>>

\* creds.refresh(request)
Refresh ==
    /\ fakeCreds # NoneVal
    /\ fakeCreds' = [fakeCreds EXCEPT !.obj = Refreshed(fakeCreds.obj),
                                      !.used = @ \cup {"refresh"}]
    /\ UNCHANGED <<retryVars, classified, env, facade, headers, opVars, appVars>>

\* creds.apply(headers, token)
Apply(h, token) ==
    /\ fakeCreds # NoneVal
    /\ headers' = [given |-> h, result |-> Applied(fakeCreds.obj, h, token)]
    /\ fakeCreds' = [fakeCreds EXCEPT !.used = @ \cup {"apply"}]
    /\ UNCHANGED <<retryVars, classified, env, facade, opVars, appVars>>

\* creds.before_request(request, method, url, headers): self.apply(headers)
BeforeRequest(h) ==
    /\ fakeCreds # NoneVal
    /\ headers' = [given |-> h, result |-> Applied(fakeCreds.obj, h, NoneStr)]
    /\ fakeCreds' = [fakeCreds EXCEPT !.used = @ \cup {"before_request"}]
    /\ UNCHANGED <<retryVars, classified, env, facade, opVars, appVars>>

InitFake ==
    /\ InitRetry
    /\ policy = DefaultPolicy
    /\ InitRest
    /\ env \in FakeEnvironments
    /\ facade = NoFacade

NextFake ==
    \/ \E token \in FakeTokenValues, user \in FakeUserValues : FakeInit(token, user)
    \/ Refresh
    \/ \E h \in HeaderMaps, token \in TokenOverrides : Apply(h, token)
    \/ \E h \in HeaderMaps : BeforeRequest(h)

SpecFake == InitFake /\ [][NextFake]_vars

(***************************************************************************)
(* services/gmail.py, services/calendar.py, services/people.py: the facade *)
(* methods.  Each is decorated with retry_with_backoff, so the wrapper     *)
(* invokes the whole method body; the body issues its remote requests and  *)
(* on HttpError logs and re-raises.  listing.requests logs every remote    *)
(* request of the call with the invocation (run) that issued it.           *)
(***************************************************************************)

\* dict.get(key, default) on a response.
Get(response, key, default) ==
    IF key \in DOMAIN response THEN response[key] ELSE default

MorePagesInclusive(response, messages, max_results) ==
    "nextPageToken" \in DOMAIN response /\ Len(messages) <= max_results

\* while 'nextPageToken' in response and len(messages) < max_results
MorePages(response, messages, max_results) ==
    "nextPageToken" \in DOMAIN response /\ Len(messages) < max_results

\* messages[:max_results], for max_results >= 0
Truncated(messages, max_results) ==
    SubSeq(messages, 1, IF Len(messages) < max_results THEN Len(messages)
                        ELSE max_results)

\* request_params of the next request: the first of an invocation carries
\* no pageToken, a later one the nextPageToken of the previous response.
RequestParams(l) ==
    IF l.started
    THEN [userId |-> "me", maxResults |-> l.max_results,
          pageToken |-> l.response.nextPageToken]
    ELSE [userId |-> "me", maxResults |-> l.max_results]

FreshLocalsResumes(l) == l

\* The locals of list_messages (request_params, response, messages) exist
\* anew in every invocation of the method.
FreshLocals(l) ==
    [l EXCEPT !.started = FALSE, !.messages = <<>>, !.response = NoneVal]

FacadeSwallows(error) == [kind |-> "ok", value |-> "None"]

\* except HttpError as error: logger.error(...); raise
FacadeReraised(error) == error

\* A page of a mailbox of total messages, from offset p, k messages long:
\* the key messages is absent from an empty page, the key nextPageToken
\* from the last page.
Page(total, p, k) ==
    LET ids == [i \in 1..k |-> p + i]
    IN IF k > 0 /\ p + k < total
       THEN [kind |-> "response", messages |-> ids, nextPageToken |-> p + k]
       ELSE IF k > 0
       THEN [kind |-> "response", messages |-> ids]
       ELSE IF p + k < total
       THEN [kind |-> "response", nextPageToken |-> p + k]
       ELSE [kind |-> "response"]

\* The responses the server may give to a list request: the next page, of
\* any size from 1 to MaxPage while messages remain.
ServerResponses(total, params) ==
    LET p == IF "pageToken" \in DOMAIN params THEN params.pageToken ELSE 0
        rem == total - p
    IN IF rem <= 0 THEN {Page(total, p, 0)}
       ELSE {Page(total, p, k) : k \in 1..(IF rem < MaxPage THEN rem ELSE MaxPage)}

\* The failures a remote request may end in.
RemoteErrors == {HttpError(404), HttpError(429), HttpError(503),
                 [kind |-> "OtherError", name |-> "ConnectionError"]}

\* The facades decorate with the defaults of retry_with_backoff; the number
\* of retries is cut to MaxOpRetries here.
OpPolicies == [max_retries : 0..MaxOpRetries,
               initial_delay : {DefaultPolicy.initial_delay},
               backoff_factor : {DefaultPolicy.backoff_factor}]

\* gmail.list_messages(max_results=n) on a mailbox of total messages.
ListCall(n, total) ==
    /\ CallStep([pos |-> <<"self">>, kw |-> {<<"max_results", n>>}])
    /\ listing' = [op |-> "list_messages", max_results |-> n, total |-> total,
                   started |-> FALSE, messages |-> <<>>, response |-> NoneVal,
                   requests |-> <<>>]
    /\ oplog' = <<>>
    /\ UNCHANGED <<classified, env, facade, fakeVars, appVars>>

\* One request of list_messages and what follows it in the method: r is the
\* server's response or the failure of execute().  A response that leaves
\* the while condition true keeps the method running; otherwise the method
\* returns messages[:max_results]; a failure leaves through the except
\* clause (an HttpError) or past it, and the wrapper takes over.
ListRequest(r) ==
    /\ pc = "loop"
    /\ InRange(attempt, policy.max_retries)
    /\ listing # NoneVal
    /\ listing.op = "list_messages"
    /\ LET params == RequestParams(listing)
           run == NInvocations(events) + 1
           entry == [run |-> run, params |-> params, result |-> r,
                     before |-> Len(listing.messages)]
           logged == [listing EXCEPT !.requests = Append(@, entry)]
       IN \/ /\ r \in ServerResponses(listing.total, params)
             /\ LET messages == listing.messages \o Get(r, "messages", <<>>)
                IN IF MorePages(r, messages, listing.max_results)
                   THEN /\ listing' = [logged EXCEPT !.started = TRUE,
                                                     !.messages = messages,
                                                     !.response = r]
                        /\ UNCHANGED <<retryVars, oplog>>
                   ELSE /\ AttemptStep([kind |-> "ok",
                                        value |-> Truncated(messages, listing.max_results)])
                        /\ listing' = FreshLocals(logged)
                        /\ UNCHANGED oplog
          \/ /\ r \in RemoteErrors
             /\ r.kind = "HttpError"
             /\ oplog' = Append(oplog, [op |-> "list_messages", error |-> r])
             /\ AttemptStep(FacadeReraised(r))
             /\ listing' = FreshLocals(logged)
          \/ /\ r \in RemoteErrors
             /\ r.kind # "HttpError"
             /\ AttemptStep(r)
             /\ listing' = FreshLocals(logged)
             /\ UNCHANGED oplog
    /\ UNCHANGED <<classified, env, facade, fakeVars, appVars>>

\* Facade methods that issue one remote request: one of each facade.
SingleRequestOps == {"get_message", "list_calendars", "get_contact"}

\* service.get_message(...), service.list_calendars(), service.get_contact(...)
OpCall(op) ==
    /\ CallStep([pos |-> <<"self">>, kw |-> {}])
    /\ listing' = [op |-> op, requests |-> <<>>]
    /\ oplog' = <<>>
    /\ UNCHANGED <<classified, env, facade, fakeVars, appVars>>

\* The body of a single-request method: the request succeeds and the method
\* returns the resource of the response, or execute() fails and the method
\* leaves through the except clause (an HttpError) or past it.
OpRequest(r) ==
    /\ pc = "loop"
    /\ InRange(attempt, policy.max_retries)
    /\ listing # NoneVal
    /\ listing.op \in SingleRequestOps
    /\ LET run == NInvocations(events) + 1
           entry == [run |-> run, params |-> [op |-> listing.op], result |-> r]
       IN listing' = [listing EXCEPT !.requests = Append(@, entry)]
    /\ \/ /\ r = [kind |-> "ok", value |-> "resource"]
          /\ AttemptStep(r)
          /\ UNCHANGED oplog
       \/ /\ r \in RemoteErrors
          /\ r.kind = "HttpError"
          /\ oplog' = Append(oplog, [op |-> listing.op, error |-> r])
          /\ AttemptStep(FacadeReraised(r))
       \/ /\ r \in RemoteErrors
          /\ r.kind # "HttpError"
          /\ AttemptStep(r)
          /\ UNCHANGED oplog
    /\ UNCHANGED <<classified, env, facade, fakeVars, appVars>>

\* What execute() may come back with for the next request of list_messages.
ListAnswers ==
    IF listing # NoneVal /\ listing.op = "list_messages"
    THEN ServerResponses(listing.total, RequestParams(listing)) \cup RemoteErrors
    ELSE {}

InitOps ==
    /\ InitRetry
    /\ policy \in OpPolicies
    /\ InitRest
    /\ env = NoEnv
    /\ facade = NoFacade

NextOps ==
    \/ \E n \in 0..MaxResultsBound, total \in 0..MaxMailbox : ListCall(n, total)
    \/ \E r \in ListAnswers : ListRequest(r)
    \/ \E op \in SingleRequestOps : OpCall(op)
    \/ \E r \in RemoteErrors \cup {[kind |-> "ok", value |-> "resource"]} : OpRequest(r)

SpecOps == InitOps /\ [][NextOps]_vars

(***************************************************************************)
(* server.py: call_tool and _execute_tool.  tool records one call of       *)
(* call_tool: what it was given, which facade method it reached with which *)
(* arguments, what it logged and what it gave back.                        *)
(***************************************************************************)

\* The tools _execute_tool knows, with the facade and method each one calls
\* and whether it passes the arguments on (**arguments) or calls without.
ToolTable ==
    [gmail_list_messages |-> [service |-> "gmail", method |-> "list_messages", splat |-> TRUE],
     gmail_get_message |-> [service |-> "gmail", method |-> "get_message", splat |-> TRUE],
     gmail_send_message |-> [service |-> "gmail", method |-> "send_message", splat |-> TRUE],
     gmail_reply_to_message |-> [service |-> "gmail", method |-> "reply_to_message", splat |-> TRUE],
     gmail_list_labels |-> [service |-> "gmail", method |-> "list_labels", splat |-> FALSE],
     gmail_create_label |-> [service |-> "gmail", method |-> "create_label", splat |-> TRUE],
     gmail_modify_message |-> [service |-> "gmail", method |-> "modify_message", splat |-> TRUE],
     gmail_create_draft |-> [service |-> "gmail", method |-> "create_draft", splat |-> TRUE],
     gmail_send_draft |-> [service |-> "gmail", method |-> "send_draft", splat |-> TRUE],
     calendar_list_events |-> [service |-> "calendar", method |-> "list_events", splat |-> TRUE],
     calendar_create_event |-> [service |-> "calendar", method |-> "create_event", splat |-> TRUE],
     calendar_update_event |-> [service |-> "calendar", method |-> "update_event", splat |-> TRUE],
     calendar_delete_event |-> [service |-> "calendar", method |-> "delete_event", splat |-> TRUE],
     people_list_contacts |-> [service |-> "people", method |-> "list_contacts", splat |-> TRUE],
     people_search_contacts |-> [service |-> "people", method |-> "search_contacts", splat |-> TRUE],
     people_create_contact |-> [service |-> "people", method |-> "create_contact", splat |-> TRUE],
     people_delete_contact |-> [service |-> "people", method |-> "delete_contact", splat |-> TRUE]]

\* An exception of a class other than HttpError, with the text of str(e).
PyError(name, message) == [kind |-> "OtherError", name |-> name, message |-> message]

\* An HttpError as a facade raises it, with the text of str(e).
HttpErrorWithText(s) ==
    [kind |-> "HttpError", status |-> s,
     message |-> "<HttpError " \o ToString(s) \o " when requesting the resource>"]

\* The strings datetime.fromisoformat accepts, among those of the model.
IsoStrings == {"2025-01-01T10:00:00", "2025-01-01T11:00:00"}

\* datetime.fromisoformat(s)
FromIsoformat(s) ==
    IF s \in IsoStrings THEN [kind |-> "datetime", iso |-> s]
    ELSE PyError("ValueError", "Invalid isoformat string: '" \o s \o "'")

\* arguments[key] = datetime.fromisoformat(arguments[key]), for the keys in
\* turn: the arguments with the keys converted, or the first error.
RECURSIVE ConvertTimes(_, _, _)
ConvertTimes(arguments, keys, required) ==
    IF keys = <<>> THEN [kind |-> "arguments", value |-> arguments]
    ELSE LET k == Head(keys)
         IN IF k \notin DOMAIN arguments
            THEN IF required THEN PyError("KeyError", "'" \o k \o "'")
                 ELSE ConvertTimes(arguments, Tail(keys), required)
            ELSE LET d == FromIsoformat(arguments[k])
                 IN IF d.kind # "datetime" THEN d
                    ELSE ConvertTimes([arguments EXCEPT ![k] = d], Tail(keys), required)

\* What _execute_tool does before it calls the facade: the arguments it
\* will pass, or the error it raises itself.
Prepared(name, arguments) ==
    IF name \notin DOMAIN ToolTable
    THEN PyError("ValueError", "Unknown tool: " \o name)
    ELSE IF name = "calendar_create_event"
    THEN ConvertTimes(arguments, <<"start_time", "end_time">>, TRUE)
    ELSE IF name = "calendar_update_event"
    THEN ConvertTimes(arguments, <<"start_time", "end_time">>, FALSE)
    ELSE IF ToolTable[name].splat
    THEN [kind |-> "arguments", value |-> arguments]
    ELSE [kind |-> "arguments", value |-> <<>>]

CaughtByCallToolHttpOnly(e) == e.kind = "HttpError"

\* except Exception as e: every error of the model is an Exception
CaughtByCallTool(e) == e.kind \in {"HttpError", "OtherError"}

\* f"Error: {str(e)}"
ErrorText(e) == "Error: " \o e.message

\* str(result)
Str(result) == result.repr

\* [TextContent(type="text", text=...)]
TextResult(text) == <<[type |-> "text", text |-> text]>>

\* What a facade method called by a tool may end in: a value, with the text
\* str() gives of it, or an error.
FacadeResults ==
    {[kind |-> "ok", value |-> [repr |-> "[{'id': 'm1'}]"]],
     [kind |-> "ok", value |-> [repr |-> "None"]],
     HttpErrorWithText(404), HttpErrorWithText(503),
     PyError("TypeError", "got an unexpected keyword argument 'bogus'"),
     PyError("ConnectionError", "connection reset")}

ToolNames == DOMAIN ToolTable \cup {"people_get_contact", ""}

ToolArguments ==
    {<<>>,
     [message_id |-> "m1"],
     [bogus |-> "x"],
     [event_id |-> "e1", start_time |-> "2025-01-01T10:00:00"],
     [event_id |-> "e1", end_time |-> "tomorrow"],
     [summary |-> "s", start_time |-> "2025-01-01T10:00:00",
      end_time |-> "2025-01-01T11:00:00"],
     [summary |-> "s", start_time |-> "2025-01-01T10:00:00"],
     [summary |-> "s", start_time |-> "tomorrow", end_time |-> "2025-01-01T11:00:00"]}

\* call_tool(name, arguments).  fr is what the facade method ends in when
\* _execute_tool gets as far as calling it.
CallTool(name, arguments, fr) ==
    /\ LET prep == Prepared(name, arguments)
           reached == prep.kind = "arguments"
           o == IF reached THEN fr ELSE prep
           dispatched == IF reached
                         THEN [service |-> ToolTable[name].service,
                               method |-> ToolTable[name].method,
                               arguments |-> prep.value]
                         ELSE NoneVal
       IN tool' = [name |-> name, arguments |-> arguments,
                   dispatched |-> dispatched, outcome |-> o,
                   log |-> IF o.kind # "ok" /\ CaughtByCallTool(o)
                           THEN <<"Error executing tool " \o name \o ": " \o o.message>>
                           ELSE <<>>,
                   result |-> IF o.kind = "ok"
                              THEN [kind |-> "returned", value |-> TextResult(Str(o.value))]
                              ELSE IF CaughtByCallTool(o)
                              THEN [kind |-> "returned", value |-> TextResult(ErrorText(o))]
                              ELSE [kind |-> "raised", error |-> o]]
    /\ UNCHANGED <<retryVars, classified, env, facade, fakeVars, opVars,
                   auth, rmw, server>>

InitTool ==
    /\ InitRetry
    /\ policy = DefaultPolicy
    /\ InitRest
    /\ env = NoEnv
    /\ facade = NoFacade

NextTool ==
    \E name \in ToolNames, arguments \in ToolArguments, fr \in FacadeResults :
        CallTool(name, arguments, fr)

SpecTool == InitTool /\ [][NextTool]_vars

(***************************************************************************)
(* auth/oauth.py: OAuth2Authenticator.  auth holds the two files, the      *)
(* cache _creds, the number of tokens the authorization server has issued, *)
(* what the last call did if nothing has happened since (last, with the    *)
(* files and cache it found in before) and what the last revoke removed.   *)
(***************************************************************************)

\* A google Credentials object: its access token, its refresh token and
\* what its properties valid and expired answer now.
Credentials(token, refresh_token, valid, expired) ==
    [kind |-> "Credentials", token |-> token, refresh_token |-> refresh_token,
     valid |-> valid, expired |-> expired]

\* self._creds.to_json(): the tokens, not what valid and expired answer
ToJson(c) == [kind |-> "json", token |-> c.token, refresh_token |-> c.refresh_token]

\* Credentials.from_authorized_user_file(token_path, scopes): the tokens of
\* the file; valid and expired depend on the moment of the call.
FromAuthorizedUserFile(json, valid, expired) ==
    Credentials(json.token, json.refresh_token, valid, expired)

CredentialsFileNeverMissing(a) == FALSE

\* if not self.credentials_path.exists()
CredentialsFileMissing(a) == ~a.credsFile

\* if not self._creds or not self._creds.valid
NeedsLogin(c) == ~TruthyObject(c) \/ ~c.valid

CanRefreshWithoutToken(c) == TruthyObject(c) /\ c.expired

\* if self._creds and self._creds.expired and self._creds.refresh_token
CanRefresh(c) == TruthyObject(c) /\ c.expired /\ Truthy(c.refresh_token)

\* self._creds.refresh(Request()) that succeeds: the same object with a new
\* access token, valid again.
RefreshedCredentials(c, token) ==
    [c EXCEPT !.token = token, !.valid = TRUE, !.expired = FALSE]

\* _save_token: if self._creds, the token file gets its serialized form
SavedToken(a) ==
    IF TruthyObject(a._creds) THEN [a EXCEPT !.tokenFile = ToJson(a._creds)] ELSE a

RevokedCacheOnly(a) == [a EXCEPT !._creds = NoCredentials]

RevokedFileOnly(a) == [a EXCEPT !.tokenFile = NoneVal]

\* revoke_credentials: unlink the token file if it exists, clear the cache
Revoked(a) == [a EXCEPT !.tokenFile = NoneVal, !._creds = NoCredentials]

\* What one call of get_credentials did.
GetTrace(a, inhand, refreshed, flowed, wrote, result) ==
    [op |-> "get_credentials", afterRevoke |-> a.sinceRevoke,
     loaded |-> a.tokenFile # NoneVal, inhand |-> inhand,
     refreshed |-> refreshed, flowed |-> flowed, wrote |-> wrote,
     result |-> result]

FileNotFound ==
    PyError("FileNotFoundError",
            "credentials.json not found. Download OAuth credentials from Google Cloud Console.")

RefreshTokens == {NoneStr, "", "rt"}

\* What valid and expired may answer for credentials read from a file.
LoadStatuses == [valid : BOOLEAN, expired : BOOLEAN]

\* How a refresh or an interactive flow may end: with credentials (carrying
\* this refresh token, for a flow) or with an error.
GrantOutcomes ==
    {[kind |-> "ok", refresh_token |-> "rt"],
     [kind |-> "ok", refresh_token |-> NoneStr],
     PyError("RefreshError", "invalid_grant"),
     PyError("AccessDeniedError", "access_denied")}

\* OAuth2Authenticator(credentials_path, token_path): the files are as the
\* user left them, nothing is cached.
AuthInit(credsFile, tokenFile) ==
    /\ auth = NoneVal
    /\ auth' = [credsFile |-> credsFile, tokenFile |-> tokenFile,
                _creds |-> NoCredentials, issued |-> 0,
                before |-> NoneVal, last |-> NoneVal,
                sinceRevoke |-> FALSE, revoked |-> NoCredentials]
    /\ UNCHANGED <<retryVars, classified, env, facade, fakeVars, opVars,
                   tool, rmw, server>>

\* get_credentials().  status is what valid and expired answer if the token
\* file is read; go is how the refresh or the flow ends if one is run.
GetCredentials(status, go) ==
    /\ auth # NoneVal
    /\ auth.issued < MaxIssued
    /\ LET before == [tokenFile |-> auth.tokenFile, _creds |-> auth._creds]
           a0 == [auth EXCEPT !.before = before]
       IN IF CredentialsFileMissing(auth)
          THEN auth' = [a0 EXCEPT !.last =
                           [GetTrace(auth, NoCredentials, 0, 0, 0,
                                     [kind |-> "raised", error |-> FileNotFound])
                                EXCEPT !.loaded = FALSE]]
          ELSE LET loaded == auth.tokenFile # NoneVal
                   inhand == IF loaded
                             THEN FromAuthorizedUserFile(auth.tokenFile,
                                                         status.valid, status.expired)
                             ELSE auth._creds
                   a1 == [a0 EXCEPT !._creds = inhand]
                   fresh == auth.issued + 1
               IN IF ~NeedsLogin(inhand)
                  THEN auth' = [a1 EXCEPT
                                    !.last = GetTrace(auth, inhand, 0, 0, 0,
                                                 [kind |-> "returned", value |-> inhand]),
                                    !.sinceRevoke = FALSE]
                  ELSE IF go.kind # "ok"
                  THEN auth' = [a1 EXCEPT !.last =
                                    GetTrace(auth, inhand,
                                             IF CanRefresh(inhand) THEN 1 ELSE 0,
                                             IF CanRefresh(inhand) THEN 0 ELSE 1,
                                             0, [kind |-> "raised", error |-> go])]
                  ELSE LET c == IF CanRefresh(inhand)
                                THEN RefreshedCredentials(inhand, fresh)
                                ELSE Credentials(fresh, go.refresh_token, TRUE, FALSE)
                           a2 == SavedToken([a1 EXCEPT !._creds = c, !.issued = fresh])
                       IN auth' = [a2 EXCEPT
                                     !.last = GetTrace(auth, inhand,
                                                  IF CanRefresh(inhand) THEN 1 ELSE 0,
                                                  IF CanRefresh(inhand) THEN 0 ELSE 1,
                                                  IF a2.tokenFile = a1.tokenFile THEN 0 ELSE 1,
                                                  [kind |-> "returned", value |-> c]),
                                     !.sinceRevoke = FALSE]
    /\ UNCHANGED <<retryVars, classified, env, facade, fakeVars, opVars,
                   tool, rmw, server>>

\* revoke_credentials()
RevokeCredentials ==
    /\ auth # NoneVal
    /\ LET before == [tokenFile |-> auth.tokenFile, _creds |-> auth._creds]
           a1 == Revoked(auth)
       IN auth' = [a1 EXCEPT !.before = before,
                             !.last = [op |-> "revoke_credentials",
                                       unlinked |-> auth.tokenFile # NoneVal,
                                       result |-> [kind |-> "returned", value |-> NoneVal]],
                             !.sinceRevoke = TRUE,
                             !.revoked = auth._creds]
    /\ UNCHANGED <<retryVars, classified, env, facade, fakeVars, opVars,
                   tool, rmw, server>>

\* Time passes: the cached credentials, valid until now, have expired.
Expire ==
    /\ auth # NoneVal
    /\ TruthyObject(auth._creds)
    /\ auth._creds.valid
    /\ auth' = [auth EXCEPT !._creds.valid = FALSE, !._creds.expired = TRUE,
                             !.last = NoneVal]
    /\ UNCHANGED <<retryVars, classified, env, facade, fakeVars, opVars,
                   tool, rmw, server>>

\* The token file is removed by something other than the authenticator, so
\* that the next call finds token_path.exists() false and keeps its cache.
TokenFileRemoved ==
    /\ auth # NoneVal
    /\ auth.tokenFile # NoneVal
    /\ auth' = [auth EXCEPT !.tokenFile = NoneVal, !.last = NoneVal]
    /\ UNCHANGED <<retryVars, classified, env, facade, fakeVars, opVars,
                   tool, rmw, server>>

\* The token files a user may have when the authenticator is constructed.
InitialTokenFiles ==
    {NoneVal} \cup {[kind |-> "json", token |-> 0, refresh_token |-> r] :
                       r \in RefreshTokens}

InitAuth ==
    /\ InitRetry
    /\ policy = DefaultPolicy
    /\ InitRest
    /\ env = NoEnv
    /\ facade = NoFacade

NextAuth ==
    \/ \E c \in BOOLEAN, t \in InitialTokenFiles : AuthInit(c, t)
    \/ \E status \in LoadStatuses, go \in GrantOutcomes : GetCredentials(status, go)
    \/ RevokeCredentials
    \/ Expire
    \/ TokenFileRemoved

SpecAuth == InitAuth /\ [][NextAuth]_vars

(***************************************************************************)
(* The facade methods that read an object and then write it: each is       *)
(* decorated with retry_with_backoff and calls, inside its try, another    *)
(* decorated method (get_event, get_contact, get_label, get_message)       *)
(* before its own write request.  rmw holds the frame of the outer wrapper *)
(* and, while the inner method runs, the frame of the inner one, with the  *)
(* number of requests of each kind and what the last of each kind was.     *)
(***************************************************************************)

\* The methods and the decorated method each calls first.
ReadModifyWriteOps ==
    [update_event |-> "get_event", respond_to_event |-> "get_event",
     update_contact |-> "get_contact", update_label |-> "get_label",
     reply_to_message |-> "get_message"]

\* Lines 46-48 of retry.py: the locals of a wrapper call that starts.
Frame(p) == [attempt |-> 0, delay |-> p.initial_delay]

\* Lines 50-71 of retry.py for one iteration whose operation ended in o:
\* the wrapper returns, raises, or sleeps and goes round again.
WrapperDecision(o, frame, p) ==
    IF o.kind = "ok" THEN "return"
    ELSE IF ~CaughtByHandler(o) THEN "raise"
    ELSE IF IsClientError(o.status) THEN "raise"
    ELSE IF IsLastAttempt(frame.attempt, p.max_retries) THEN "raise"
    ELSE "retry"

\* Lines 70-71 and the loop header: after the sleep, the next iteration.
NextFrame(frame, p) ==
    [attempt |-> frame.attempt + 1, delay |-> NextDelay(frame.delay, p.backoff_factor)]

AfterGetAlwaysWrites(o) == "write"

\* The body after the inner method: with its value the body goes on to the
\* write request, with its error the body is left.
AfterGet(o) == IF o.kind = "ok" THEN "write" ELSE "except"

\* What a get or a write request may end in.
RmwAnswers == {[kind |-> "ok", value |-> "resource"],
               HttpError(404), HttpError(429), HttpError(503),
               [kind |-> "OtherError", name |-> "ConnectionError"]}

\* The method is called: the outer wrapper starts, invokes the body, and
\* the body calls the inner method, whose wrapper starts.
RmwCall(op) ==
    /\ IF rmw = NoneVal THEN TRUE ELSE rmw.phase \in {"returned", "raised"}
    /\ rmw' = [op |-> op, policy |-> DefaultPolicy,
               outer |-> Frame(DefaultPolicy), inner |-> Frame(DefaultPolicy),
               phase |-> "get", nGet |-> 0, nWrite |-> 0, sleeps |-> 0,
               getsAllRetryable |-> TRUE, getsAllOk |-> TRUE,
               writesAllRetryable |-> TRUE,
               lastGet |-> NoneVal, lastWrite |-> NoneVal, outcome |-> NoneVal]
    /\ UNCHANGED <<retryVars, classified, env, facade, fakeVars, opVars,
                   tool, auth, server>>

\* The body of the outer method ended in o (a value of the write, or an
\* error of the inner method or of the write, re-raised by the except
\* clause): what the outer wrapper does with it.
OuterStep(r, o) ==
    LET d == WrapperDecision(o, r.outer, r.policy)
    IN IF d = "return"
       THEN [r EXCEPT !.phase = "returned",
                      !.outcome = [kind |-> "returned", value |-> Returned(o.value)]]
       ELSE IF d = "raise"
       THEN [r EXCEPT !.phase = "raised",
                      !.outcome = [kind |-> "raised", error |-> Reraised(o)]]
       ELSE [r EXCEPT !.phase = "get",
                      !.outer = NextFrame(r.outer, r.policy),
                      !.inner = Frame(r.policy),
                      !.sleeps = @ + 1]

\* One get request of the inner method, answered with o, and all that
\* follows it up to the next request.
RmwGet(o) ==
    /\ rmw # NoneVal
    /\ rmw.phase = "get"
    /\ LET r1 == [rmw EXCEPT !.nGet = @ + 1,
                             !.getsAllRetryable = @ /\ o.kind = "HttpError"
                                                    /\ o.status \in {429, 503},
                             !.getsAllOk = @ /\ o.kind = "ok",
                             !.lastGet = [outer |-> rmw.outer.attempt, result |-> o]]
           d == WrapperDecision(IF o.kind = "ok" THEN o ELSE FacadeReraised(o),
                                rmw.inner, rmw.policy)
       IN IF d = "retry"
          THEN rmw' = [r1 EXCEPT !.inner = NextFrame(rmw.inner, rmw.policy),
                                 !.sleeps = @ + 1]
          ELSE IF AfterGet(o) = "write"
          THEN rmw' = [r1 EXCEPT !.phase = "write"]
          ELSE rmw' = OuterStep(r1, IF o.kind = "HttpError"
                                    THEN FacadeReraised(Reraised(o)) ELSE o)
    /\ UNCHANGED <<retryVars, classified, env, facade, fakeVars, opVars,
                   tool, auth, server>>

\* The write request of the outer method, answered with o, and all that
\* follows it up to the next request.
RmwWrite(o) ==
    /\ rmw # NoneVal
    /\ rmw.phase = "write"
    /\ LET r1 == [rmw EXCEPT !.nWrite = @ + 1,
                             !.writesAllRetryable = @ /\ o.kind = "HttpError"
                                                      /\ o.status \in {429, 503},
                             !.lastWrite = [outer |-> rmw.outer.attempt,
                                            got |-> rmw.lastGet, result |-> o]]
       IN rmw' = OuterStep(r1, IF o.kind = "HttpError" THEN FacadeReraised(o) ELSE o)
    /\ UNCHANGED <<retryVars, classified, env, facade, fakeVars, opVars,
                   tool, auth, server>>

InitRmw ==
    /\ InitRetry
    /\ policy = DefaultPolicy
    /\ InitRest
    /\ env = NoEnv
    /\ facade = NoFacade

NextRmw ==
    \/ \E op \in DOMAIN ReadModifyWriteOps : RmwCall(op)
    \/ \E o \in RmwAnswers : RmwGet(o)
    \/ \E o \in RmwAnswers : RmwWrite(o)

SpecRmw == InitRmw /\ [][NextRmw]_vars

(***************************************************************************)
(* server.py, GSuiteMCPServer.__init__, and the facades it creates.        *)
(* server holds the objects made: the credentials objects by identity,     *)
(* with their token and whether it has expired, and for each facade the    *)
(* identity of its client handle and of the credentials it was given.      *)
(***************************************************************************)
FacadeNames == {"gmail", "calendar", "people"}

\* build(...) in the constructor of each facade makes a handle of its own.
HandleOf(f) == CASE f = "gmail" -> 1 [] f = "calendar" -> 2 [] f = "people" -> 3

\* The credentials object each facade holds.  GSuiteMCPServer gets one
\* object from the authenticator and passes it to the three constructors;
\* facades constructed without credentials in ISH mode make a
\* FakeCredentials each.
CredentialsOf(how, f) == IF how = "server" THEN 1 ELSE HandleOf(f)

\* GSuiteMCPServer(...) (how = "server"), or the three facades constructed
\* one by one without credentials in ISH mode (how = "ish").
ServerInit(how) ==
    /\ server = NoneVal
    /\ server' = [how |-> how,
                  objects |-> [c \in {CredentialsOf(how, f) : f \in FacadeNames} |->
                                  [token |-> 0, expired |-> FALSE]],
                  facades |-> [f \in FacadeNames |->
                                  [handle |-> HandleOf(f),
                                   creds |-> CredentialsOf(how, f)]],
                  requests |-> [f \in FacadeNames |-> 0],
                  sent |-> [f \in FacadeNames |-> NoneVal]]
    /\ UNCHANGED <<retryVars, classified, env, facade, fakeVars, opVars,
                   tool, auth, rmw>>

\* Time passes and the access token of OAuth credentials expires; the
\* FakeCredentials of ISH mode never do.
TokenExpires(c) ==
    /\ server # NoneVal
    /\ server.how = "server"
    /\ c \in DOMAIN server.objects
    /\ ~server.objects[c].expired
    /\ server.objects[c].token < MaxIssued
    /\ server' = [server EXCEPT !.objects[c].expired = TRUE]
    /\ UNCHANGED <<retryVars, classified, env, facade, fakeVars, opVars,
                   tool, auth, rmw>>

\* A request of facade f through its handle: the handle signs it with the
\* facade's credentials object, which is refreshed in place when expired.
FacadeRequest(f) ==
    /\ server # NoneVal
    /\ server.requests[f] < MaxFacadeRequests
    /\ LET c == server.facades[f].creds
           o == server.objects[c]
           o2 == IF o.expired THEN [token |-> o.token + 1, expired |-> FALSE] ELSE o
       IN server' = [server EXCEPT !.objects[c] = o2,
                                   !.requests[f] = @ + 1,
                                   !.sent[f] = [handle |-> server.facades[f].handle,
                                                token |-> o2.token]]
    /\ UNCHANGED <<retryVars, classified, env, facade, fakeVars, opVars,
                   tool, auth, rmw>>

InitServer ==
    /\ InitRetry
    /\ policy = DefaultPolicy
    /\ InitRest
    /\ env = NoEnv
    /\ facade = NoFacade

NextServer ==
    \/ \E how \in {"server", "ish"} : ServerInit(how)
    \/ \E c \in 1..3 : TokenExpires(c)
    \/ \E f \in FacadeNames : FacadeRequest(f)

SpecServer == InitServer /\ [][NextServer]_vars

(***************************************************************************)
(* What the claims read off the log of a call.                             *)
(***************************************************************************)
Invocations == SelectSeq(events, LAMBDA x : x.ev = "invoke")
Sleeps == SelectSeq(events, LAMBDA x : x.ev = "sleep")
Warnings == SelectSeq(events, LAMBDA x : x.ev = "warn")

RetryableSet == {429, 500, 503}

\* b to the power n, for n >= 0.
RECURSIVE Pow(_, _)
Pow(b, n) == IF n <= 0 THEN 1 ELSE b * Pow(b, n - 1)

\* The outcome is a failure whose status is 429, 500 or 503.
RetryableFailure(o) == o.kind = "HttpError" /\ o.status \in RetryableSet

\* The outcome is a failure whose status is in 400..499 and is not 429.
ClientFailure(o) == o.kind = "HttpError" /\ o.status \in (400..499) \ {429}

\* The first n invocations of the call all failed with a retryable status.
FirstFailedRetryably(n) ==
    \A i \in 1..n : RetryableFailure(Invocations[i].outcome)

InCall == pc # "idle"

\* C1: with max_retries = N >= 0, as long as every invocation has failed with
\* a status in {429, 500, 503} the wrapper goes on to invoke again until N+1
\* invocations have happened, and after the (N+1)-th it raises; it has slept
\* once per invocation before the last one, so for N = 0 it never sleeps.
C1_ExhaustsAfterNPlusOne ==
    (InCall /\ policy.max_retries >= 0 /\ FirstFailedRetryably(Len(Invocations)))
    => LET N == policy.max_retries
           k == Len(Invocations)
       IN /\ k <= N + 1
          /\ k < N + 1 => (pc = "loop" /\ attempt = k /\ Len(Sleeps) = k)
          /\ k = N + 1 => /\ pc = "raised"
                          /\ outcome.kind = "raised"
                          /\ outcome.error.kind = "HttpError"
                          /\ Len(Sleeps) = N

C1_Witness ==
    /\ policy.max_retries = 3
    /\ pc = "raised"
    /\ Len(Invocations) = 4
    /\ FirstFailedRetryably(4)
    /\ Len(Sleeps) = 3

\* C2: after f <= max_retries failures with a status in {429, 500, 503} the
\* wrapper invokes again, and when that invocation succeeds the call has
\* returned that invocation's value, no error, after exactly f+1 invocations.
C2_SucceedsAfterFailures ==
    \A f \in 0..Len(Invocations) :
        (InCall /\ f <= policy.max_retries /\ FirstFailedRetryably(f))
        => /\ Len(Invocations) = f => (pc = "loop" /\ attempt = f)
           /\ (Len(Invocations) > f /\ Invocations[f + 1].outcome.kind = "ok")
              => /\ pc = "returned"
                 /\ outcome = [kind |-> "returned",
                               value |-> Invocations[f + 1].outcome.value]
                 /\ Len(Invocations) = f + 1

C2_Witness ==
    /\ policy = DefaultPolicy
    /\ pc = "returned"
    /\ Len(Invocations) = 3
    /\ Invocations[1].outcome = HttpError(429)
    /\ Invocations[2].outcome = HttpError(503)
    /\ Invocations[3].outcome = [kind |-> "ok", value |-> "ok"]
    /\ outcome = [kind |-> "returned", value |-> "ok"]

\* C3: an invocation that fails with a status in 400..499 other than 429 is
\* the last event of its call (no warning, no sleep and no invocation follows
\* it) and the call has raised that very error; on the first attempt that
\* makes one invocation, whatever max_retries is.
C3_ClientErrorNotRetried ==
    \A i \in 1..Len(events) :
        (events[i].ev = "invoke" /\ ClientFailure(events[i].outcome))
        => /\ i = Len(events)
           /\ pc = "raised"
           /\ outcome = [kind |-> "raised", error |-> events[i].outcome,
                         n |-> events[i].n]
           /\ events[i].n = Len(Invocations)
           /\ i = 1 => Len(Invocations) = 1

C3_Witness ==
    /\ policy.max_retries = 5
    /\ pc = "raised"
    /\ Len(Invocations) = 2
    /\ Invocations[1].outcome = HttpError(500)
    /\ Invocations[2].outcome = HttpError(404)
    /\ Len(Sleeps) = 1

\* C4: a failed invocation with attempts remaining is followed by a retry
\* exactly when is_retryable_error holds of its error, that is only when its
\* status is 429, 500 or 503.
C4_RetriesOnlyRetryableSet ==
    \A i \in 1..Len(events) :
        (/\ events[i].ev = "invoke"
         /\ events[i].outcome.kind = "HttpError"
         /\ policy.max_retries >= 0
         /\ events[i].n <= policy.max_retries)
        => /\ (i < Len(events)) = is_retryable_error(events[i].outcome)
           /\ (i < Len(events)) => events[i].outcome.status \in RetryableSet

\* C5: an invocation that raises an exception that is not an HttpError is the
\* last event of its call, at whichever attempt it happens, and the call has
\* raised that very exception.
C5_NonHttpErrorPropagates ==
    \A i \in 1..Len(events) :
        (events[i].ev = "invoke" /\ events[i].outcome.kind = "OtherError")
        => /\ i = Len(events)
           /\ pc = "raised"
           /\ outcome = [kind |-> "raised", error |-> events[i].outcome,
                         n |-> events[i].n]
           /\ Len(Sleeps) = events[i].n - 1

C5_Witness ==
    /\ pc = "raised"
    /\ Len(Invocations) = 3
    /\ Invocations[1].outcome = HttpError(429)
    /\ Invocations[2].outcome = HttpError(503)
    /\ Invocations[3].outcome.kind = "OtherError"
    /\ outcome.error = Invocations[3].outcome

\* C6: the k-th wait of a call lasts initial_delay * backoff_factor^(k-1),
\* and the wrapper about to make attempt k holds that sequence's next delay;
\* a call starts at attempt 0 with delay initial_delay, also when an earlier
\* call of the same wrapper retried.
C6_GeometricDelays ==
    /\ \A k \in 1..Len(Sleeps) :
           Sleeps[k].delay = policy.initial_delay * Pow(policy.backoff_factor, k - 1)
    /\ \A k \in 1..Len(Warnings) : Warnings[k].delay = Sleeps[k].delay
    /\ pc = "loop" =>
           /\ attempt = Len(Sleeps)
           /\ delay = policy.initial_delay * Pow(policy.backoff_factor, attempt)
           /\ Len(events) = 0 => (attempt = 0 /\ delay = policy.initial_delay)

C6_Witness ==
    /\ calls = 2
    /\ prevRetried
    /\ policy.initial_delay = 3
    /\ policy.backoff_factor = 2
    /\ Len(Sleeps) = 3
    /\ Sleeps[1].delay = 3
    /\ Sleeps[3].delay = 12

\* C7: when the last of the max_retries+1 invocations fails with a status the
\* call raises that invocation's error, status unchanged, and no earlier
\* one; a call has returned only if its last invocation succeeded.
C7_FinalErrorPropagates ==
    LET k == Len(Invocations)
    IN /\ (/\ InCall
           /\ policy.max_retries >= 0
           /\ k = policy.max_retries + 1
           /\ Invocations[k].outcome.kind = "HttpError")
          => /\ pc = "raised"
             /\ outcome = [kind |-> "raised", error |-> Invocations[k].outcome,
                           n |-> k]
       /\ pc = "returned" => (k >= 1 /\ Invocations[k].outcome.kind = "ok")

C7_Witness ==
    /\ policy = DefaultPolicy
    /\ pc = "raised"
    /\ Len(Invocations) = 6
    /\ \A i \in 1..6 : Invocations[i].outcome = HttpError(429)
    /\ outcome.error.status = 429
    /\ outcome.n = 6

\* C8: is_retryable_error answers true exactly for an HttpError whose status
\* is 429, 500 or 503, in whatever state the retry loop is, and using it
\* changes nothing of the wrapper's state.
C8_ClassifierExact ==
    /\ [](classified # NoneVal =>
             classified.retryable =
                 (/\ classified.error.kind = "HttpError"
                  /\ classified.error.status \in RetryableSet))
    /\ [][classified' # classified => UNCHANGED retryVars]_vars

C8_Witness ==
    /\ pc = "loop"
    /\ attempt = 1
    /\ classified = [error |-> [kind |-> "OtherError", name |-> "DuckError",
                                status |-> 503],
                     retryable |-> FALSE]

\* C9: every invocation of a call, the first and each retry, receives the
\* positional and keyword arguments of the call, and a call that returned
\* gives the value of its last invocation.
C9_Transparent ==
    /\ \A i \in 1..Len(Invocations) : Invocations[i].args = args
    /\ pc = "returned" =>
           outcome.value = Invocations[Len(Invocations)].outcome.value

C9_Witness ==
    /\ pc = "returned"
    /\ args.kw # {}
    /\ Len(Invocations) = 3
    /\ outcome.value = "other"


\* The spellings of ISH_MODE that enable ish mode.
EnabledSpellings == {"true", "True", "TRUE"}

\* C10: a facade constructed with no credentials and no api_base_url while
\* ISH_MODE is not enabled raises ValueError("credentials are required unless
\* using ish mode") without any call of build, whatever auth_token is and
\* whichever of the three services it is.
C10_CredentialsRequired ==
    (/\ facade # NoFacade
     /\ facade.given.credentials = NoCredentials
     /\ facade.given.api_base_url = NoneStr
     /\ env.ISH_MODE \notin EnabledSpellings)
    => /\ facade.kind = "ValueError"
       /\ facade.message = "credentials are required unless using ish mode"
       /\ facade.builds = <<>>

C10_Witness ==
    /\ facade # NoFacade
    /\ facade.given = [service |-> "calendar", credentials |-> NoCredentials,
                       api_base_url |-> NoneStr, auth_token |-> "user:admin"]
    /\ env.ISH_MODE = "false"
    /\ env.ISH_BASE_URL = "http://localhost:8888"
    /\ facade.kind = "ValueError"


\* C11: with no credentials passed and an endpoint in force, by a passed
\* api_base_url or by ISH_MODE enabled whatever ISH_BASE_URL is, construction
\* succeeds with fake credentials whose token is the passed auth_token, else
\* "user:" + ISH_USER, else "user:testuser".  (An empty string counts as not
\* passed and, for ISH_USER, as not set.)
C11_FakeIdentitySynthesized ==
    (/\ facade # NoFacade
     /\ facade.given.credentials = NoCredentials
     /\ (Truthy(facade.given.api_base_url) \/ env.ISH_MODE \in EnabledSpellings))
    => /\ facade.kind = "facade"
       /\ facade._service.credentials.kind = "FakeCredentials"
       /\ facade._service.credentials.token =
              IF Truthy(facade.given.auth_token) THEN facade.given.auth_token
              ELSE IF env.ISH_USER \notin {Unset, ""} THEN "user:" \o env.ISH_USER
              ELSE "user:testuser"

\* C12: the base URL of a constructed facade is the passed api_base_url, else
\* ISH_BASE_URL when ISH_MODE is enabled and it is set, else
\* "http://localhost:9000" when ISH_MODE is enabled, else absent.  (For an
\* ISH_BASE_URL set to the empty string either of the two readings is
\* accepted: the empty string, or the built-in default.)
C12_EndpointPrecedence ==
    facade.kind = "facade"
    => LET enabled == env.ISH_MODE \in EnabledSpellings
       IN IF Truthy(facade.given.api_base_url)
          THEN facade._api_base_url = facade.given.api_base_url
          ELSE IF enabled /\ env.ISH_BASE_URL \notin {Unset, ""}
          THEN facade._api_base_url = env.ISH_BASE_URL
          ELSE IF enabled /\ env.ISH_BASE_URL = ""
          THEN facade._api_base_url \in {"", "http://localhost:9000"}
          ELSE IF enabled
          THEN facade._api_base_url = "http://localhost:9000"
          ELSE facade._api_base_url = NoneStr

\* C13: a facade constructed with credentials is always built, by exactly one
\* call of build, and that call gets exactly the credentials passed, whatever
\* api_base_url, auth_token and the environment are.
C13_ExplicitCredentialsUsed ==
    (facade # NoFacade /\ facade.given.credentials # NoCredentials)
    => /\ facade.kind = "facade"
       /\ Len(facade.builds) = 1
       /\ facade.builds[1].credentials = facade.given.credentials
       /\ facade._service = facade.builds[1]

C13_Witness ==
    /\ facade.kind = "facade"
    /\ facade.given.credentials = [kind |-> "Credentials", token |-> "ya29.oauth"]
    /\ facade.given.api_base_url = "http://localhost:9000"
    /\ facade.given.auth_token = "user:admin"
    /\ env.ISH_MODE = "true"
    /\ env.ISH_USER = "envuser"
    /\ facade._service.credentials = facade.given.credentials

\* The discovery path of each service.
DiscoverySuffix(svc) ==
    CASE svc = "gmail" -> "/discovery/v1/apis/gmail/v1/rest"
      [] svc = "calendar" -> "/discovery/v1/apis/calendar/v3/rest"
      [] svc = "people" -> "/discovery/v1/apis/people/v1/rest"

\* C17: in a constructed facade _ish_mode is true exactly when _api_base_url
\* is set, and exactly then the client was built with discoveryServiceUrl =
\* base + the service's discovery path and static_discovery false; otherwise
\* _api_base_url is None and build got neither argument.
C17_ModeAndAddressingAgree ==
    facade.kind = "facade"
    => /\ facade._ish_mode = (facade._api_base_url # NoneStr)
       /\ facade._ish_mode = ("discoveryServiceUrl" \in DOMAIN facade._service)
       /\ facade._ish_mode = ("static_discovery" \in DOMAIN facade._service)
       /\ facade._ish_mode =>
              /\ facade._service.discoveryServiceUrl =
                     facade._api_base_url \o DiscoverySuffix(facade.service)
              /\ facade._service.static_discovery = FALSE
       /\ facade._service.serviceName = facade.service

C17_Witness ==
    /\ facade.kind = "facade"
    /\ facade.service = "calendar"
    /\ facade._ish_mode
    /\ facade._service.discoveryServiceUrl =
           "http://localhost:8888/discovery/v1/apis/calendar/v3/rest"


\* C14: the token of a FakeCredentials object is the token argument if one is
\* given, else "user:" + user if a user is given, else "user:" + ISH_USER if
\* the environment has one, else "user:testuser".  (An empty string counts as
\* not given.)
C14_TokenPrecedence ==
    fakeCreds # NoneVal
    => fakeCreds.obj.token =
           IF fakeCreds.given.token \notin {NoneStr, ""} THEN fakeCreds.given.token
           ELSE IF fakeCreds.given.user \notin {NoneStr, ""}
                THEN "user:" \o fakeCreds.given.user
           ELSE IF env.ISH_USER \notin {Unset, ""} THEN "user:" \o env.ISH_USER
           ELSE "user:testuser"

C14_Witness ==
    /\ fakeCreds # NoneVal
    /\ fakeCreds.given = [token |-> "user:alice", user |-> "bob"]
    /\ env.ISH_USER = "charlie"
    /\ fakeCreds.obj.token = "user:alice"

C16_AlwaysValid ==
    /\ [](fakeCreds # NoneVal =>
            (fakeCreds.obj.valid /\ ~fakeCreds.obj.expired))
    /\ [][(fakeCreds # NoneVal /\ fakeCreds'.used # {})
              => fakeCreds'.obj = fakeCreds.obj]_vars

C16_Witness ==
    /\ fakeCreds # NoneVal
    /\ fakeCreds.used = {"refresh", "apply", "before_request"}
    /\ fakeCreds.obj = [kind |-> "FakeCredentials", token |-> "user:bob",
                        valid |-> TRUE, expired |-> FALSE]

\* The requests of the facade call in progress, and what they show.
IsListing == listing # NoneVal /\ listing.op = "list_messages"
Requests == IF listing # NoneVal THEN listing.requests ELSE <<>>
LastRequest == Requests[Len(Requests)]
IsResponse(r) == r.kind = "response"
HasToken(r) == IsResponse(r) /\ "nextPageToken" \in DOMAIN r
Accumulated(e) == e.before + Len(Get(e.result, "messages", <<>>))
Continues(e) == HasToken(e.result) /\ Accumulated(e) < listing.max_results

RECURSIVE RunMessages(_, _)
RunMessages(log, run) ==
    IF log = <<>> THEN <<>>
    ELSE LET e == Head(log)
         IN (IF e.run = run /\ IsResponse(e.result)
             THEN Get(e.result, "messages", <<>>) ELSE <<>>)
            \o RunMessages(Tail(log), run)

\* C18: list_messages asks for a further page exactly when the previous
\* response carried a nextPageToken and fewer than max_results messages have
\* been accumulated; the request carries that token as pageToken and
\* continues the accumulation; once a response leaves that condition false
\* the method returns the pages of the invocation in order, cut to at most
\* max_results entries.
C18_Pagination ==
    IsListing =>
        /\ \A i \in 1..Len(Requests) :
               "pageToken" \in DOMAIN Requests[i].params =>
                   i > 1 /\ Requests[i-1].run = Requests[i].run
        /\ \A i \in 2..Len(Requests) :
               Requests[i-1].run = Requests[i].run =>
                   /\ Continues(Requests[i-1])
                   /\ "pageToken" \in DOMAIN Requests[i].params
                   /\ Requests[i].params.pageToken = Requests[i-1].result.nextPageToken
                   /\ Requests[i].before = Accumulated(Requests[i-1])
        /\ (Len(Requests) > 0 /\ Continues(LastRequest)) =>
               /\ pc = "loop"
               /\ listing.started
               /\ RequestParams(listing).pageToken = LastRequest.result.nextPageToken
        /\ (Len(Requests) > 0 /\ IsResponse(LastRequest.result)
                /\ ~Continues(LastRequest)) =>
               LET all == RunMessages(Requests, LastRequest.run)
               IN /\ pc = "returned"
                  /\ Len(outcome.value) =
                         (IF Len(all) < listing.max_results THEN Len(all)
                          ELSE listing.max_results)
                  /\ \A j \in 1..Len(outcome.value) : outcome.value[j] = all[j]

\* Two pages were fetched, the second with the first one's token; the
\* listing stopped with a token still on offer and cut the result.
C18_Witness ==
    /\ IsListing
    /\ pc = "returned"
    /\ Len(Requests) = 2
    /\ Requests[2].run = Requests[1].run
    /\ HasToken(Requests[2].result)
    /\ Len(RunMessages(Requests, 1)) > listing.max_results
    /\ Len(outcome.value) = listing.max_results

\* C19 as stated: a retried failure of a page after the first is followed by
\* a request for that same page, the pages before it being kept.
C19_EachPageRetriedAlone ==
    IsListing =>
        \A i \in 1..(Len(Requests) - 1) :
            (Requests[i].result.kind = "HttpError"
                 /\ "pageToken" \in DOMAIN Requests[i].params) =>
                /\ Requests[i+1].params = Requests[i].params
                /\ Requests[i+1].before = Requests[i].before

\* C19: the retry wraps list_messages as a whole.  The request after a
\* retried failure, of whichever page, is the first request of a fresh
\* invocation: it carries no pageToken and nothing accumulated so far is
\* kept; a new invocation starts only after a failure, and the invocations
\* of one listing, not the requests of one page, share the budget of
\* max_retries + 1.
C19_ListingRetriedAsAWhole ==
    IsListing =>
        /\ \A i \in 1..Len(Requests) :
               /\ Requests[i].run <= policy.max_retries + 1
               /\ Requests[i].run <= NInvocations(events) + 1
        /\ \A i \in 1..(Len(Requests) - 1) :
               IF IsResponse(Requests[i].result)
               THEN Requests[i+1].run = Requests[i].run
               ELSE /\ Requests[i+1].run = Requests[i].run + 1
                    /\ "pageToken" \notin DOMAIN Requests[i+1].params
                    /\ Requests[i+1].before = 0
        /\ (Len(Requests) > 0 /\ ~IsResponse(LastRequest.result)) =>
               /\ ~listing.started
               /\ listing.messages = <<>>
               /\ NInvocations(events) = LastRequest.run

\* The second page failed with 429, the listing was run again from its
\* first page and returned.
C19_Witness ==
    /\ IsListing
    /\ pc = "returned"
    /\ \E i \in 2..(Len(Requests) - 1) :
           /\ Requests[i].result = HttpError(429)
           /\ "pageToken" \in DOMAIN Requests[i].params
           /\ Requests[i].before > 0
           /\ Requests[i+1].run = 2

RECURSIVE HttpErrorsOf(_)
HttpErrorsOf(log) ==
    IF log = <<>> THEN <<>>
    ELSE (IF Head(log).result.kind = "HttpError" THEN <<Head(log).result>> ELSE <<>>)
         \o HttpErrorsOf(Tail(log))

\* C20: a remote failure that the wrapper does not retry, or that is the
\* last one it allows, reaches the caller of the facade method as the very
\* error the request raised, status included; the method returns only when
\* its last request succeeded; and every HttpError of a request has been
\* logged, in order, under the method's name.
C20_SameErrorReachesCaller ==
    listing # NoneVal =>
        /\ pc = "raised" =>
               /\ Len(Requests) > 0
               /\ outcome.error = LastRequest.result
        /\ pc = "returned" =>
               /\ Len(Requests) > 0
               /\ LastRequest.result.kind \in {"ok", "response"}
        /\ Len(oplog) = Len(HttpErrorsOf(Requests))
        /\ \A j \in 1..Len(oplog) :
               /\ oplog[j].error = HttpErrorsOf(Requests)[j]
               /\ oplog[j].op = listing.op

\* get_message failed with 503 on every allowed invocation and the caller
\* got the 503.
C20_Witness ==
    /\ listing # NoneVal
    /\ listing.op = "get_message"
    /\ pc = "raised"
    /\ policy.max_retries = 2
    /\ Len(Requests) = 3
    /\ outcome.error = HttpError(503)
    /\ Len(oplog) = 3

\* C21: call_tool returns a text result for every tool name and argument
\* set and never raises: an error of the facade method, of the argument
\* conversion or of an unknown tool name gives the one text "Error: "
\* followed by the error's message, and is logged once; a success gives the
\* text of the result and logs nothing; an unknown name reaches no facade.
C21_BoundaryTurnsErrorsIntoText ==
    tool # NoneVal =>
        /\ tool.result.kind = "returned"
        /\ Len(tool.result.value) = 1
        /\ tool.result.value[1].type = "text"
        /\ tool.outcome.kind = "ok" =>
               /\ tool.result.value[1].text = tool.outcome.value.repr
               /\ tool.log = <<>>
        /\ tool.outcome.kind # "ok" =>
               /\ tool.result.value[1].text = "Error: " \o tool.outcome.message
               /\ Len(tool.log) = 1
        /\ tool.name \notin DOMAIN ToolTable =>
               /\ tool.dispatched = NoneVal
               /\ tool.result.value[1].text = "Error: Unknown tool: " \o tool.name
        /\ (tool.dispatched # NoneVal /\ tool.outcome.kind = "HttpError") =>
               tool.result.value[1].text =
                   "Error: <HttpError " \o ToString(tool.outcome.status)
                       \o " when requesting the resource>"

\* An unknown tool name was answered with the error text.
C21_Witness ==
    /\ tool # NoneVal
    /\ tool.name = "people_get_contact"
    /\ tool.result = [kind |-> "returned",
                      value |-> <<[type |-> "text",
                                   text |-> "Error: Unknown tool: people_get_contact"]>>]

\* The call of the authenticator that has just ended, if any.
LastAuthOp ==
    IF auth # NoneVal /\ auth.last # NoneVal THEN auth.last.op ELSE "none"

\* to_json of the credentials c, field by field.
SerializedForm(c) == [kind |-> "json", token |-> c.token, refresh_token |-> c.refresh_token]

\* C22: with no client credentials file get_credentials raises
\* FileNotFoundError before it reads the token file, refreshes or runs the
\* flow, and leaves the token file and the cached credentials as they were.
C22_MissingCredentialsFile ==
    (LastAuthOp = "get_credentials" /\ ~auth.credsFile) =>
        /\ auth.last.result.kind = "raised"
        /\ auth.last.result.error.name = "FileNotFoundError"
        /\ ~auth.last.loaded
        /\ auth.last.refreshed = 0
        /\ auth.last.flowed = 0
        /\ auth.last.wrote = 0
        /\ auth.tokenFile = auth.before.tokenFile
        /\ auth._creds = auth.before._creds

\* The file is missing while a token file exists: the call raised and the
\* token file is still there.
C22_Witness ==
    /\ LastAuthOp = "get_credentials"
    /\ ~auth.credsFile
    /\ auth.tokenFile # NoneVal
    /\ auth.last.result.kind = "raised"

\* C23: with the client credentials file present, the credentials in hand
\* are those of the token file when it exists and the cached ones
\* otherwise; valid ones are returned with no refresh, flow or write;
\* invalid, expired ones with a refresh token are refreshed once with no
\* flow; in every other case the flow runs once with no refresh; the token
\* file is written exactly when one of the last two paths returns, and then
\* holds the serialized form of what is returned.
C23_ThreePaths ==
    (LastAuthOp = "get_credentials" /\ auth.credsFile) =>
        LET t == auth.last
            c == t.inhand
            present == c # NoCredentials
            valid == present /\ c.valid
            refreshable == present /\ ~c.valid /\ c.expired
                               /\ c.refresh_token \notin {NoneStr, ""}
            returned == t.result.kind = "returned"
        IN /\ t.loaded = (auth.before.tokenFile # NoneVal)
           /\ IF t.loaded
              THEN /\ c.token = auth.before.tokenFile.token
                   /\ c.refresh_token = auth.before.tokenFile.refresh_token
              ELSE c = auth.before._creds
           /\ valid => /\ t.refreshed = 0 /\ t.flowed = 0 /\ t.wrote = 0
                       /\ t.result = [kind |-> "returned", value |-> c]
                       /\ auth.tokenFile = auth.before.tokenFile
           /\ refreshable => t.refreshed = 1 /\ t.flowed = 0
           /\ (~valid /\ ~refreshable) => t.refreshed = 0 /\ t.flowed = 1
           /\ (t.wrote = 1) = (~valid /\ returned)
           /\ t.wrote \in {0, 1}
           /\ (~valid /\ returned) =>
                  /\ auth.tokenFile = SerializedForm(t.result.value)
                  /\ auth._creds = t.result.value
           /\ ~returned => auth.tokenFile = auth.before.tokenFile

\* Expired credentials with a refresh token were read from the token file,
\* refreshed and written back.
C23_Witness ==
    /\ LastAuthOp = "get_credentials"
    /\ auth.last.loaded
    /\ auth.last.refreshed = 1
    /\ auth.last.wrote = 1
    /\ auth.last.result.kind = "returned"
    /\ auth.tokenFile # auth.before.tokenFile

\* C24: revoke_credentials ends with no token file and nothing cached,
\* whether or not the file existed, and raises nothing; a revoke that
\* follows a revoke changes neither.
C24_RevokeClears ==
    /\ [](LastAuthOp = "revoke_credentials" =>
              /\ auth.tokenFile = NoneVal
              /\ auth._creds = NoCredentials
              /\ auth.last.result.kind = "returned"
              /\ auth.last.unlinked = (auth.before.tokenFile # NoneVal))
    /\ [][(LastAuthOp = "revoke_credentials" /\ RevokeCredentials) =>
              /\ auth'.tokenFile = auth.tokenFile
              /\ auth'._creds = auth._creds
              /\ ~auth'.last.unlinked]_vars

\* A revoke that found a token file and a cache, followed by a second one
\* (which found neither).
C24_Witness ==
    /\ LastAuthOp = "revoke_credentials"
    /\ auth.revoked = NoCredentials
    /\ auth.before = [tokenFile |-> NoneVal, _creds |-> NoCredentials]
    /\ auth.issued > 0

\* C30: the first get_credentials that returns after a revoke_credentials
\* read no token file and refreshed nothing: it ran the interactive flow
\* once, returned credentials that are not the ones the revoke dropped, and
\* wrote them to a new token file; whatever calls came before the revoke.
C30_LoginAfterRevoke ==
    (LastAuthOp = "get_credentials" /\ auth.last.afterRevoke
         /\ auth.last.result.kind = "returned") =>
        /\ ~auth.last.loaded
        /\ auth.last.inhand = NoCredentials
        /\ auth.last.refreshed = 0
        /\ auth.last.flowed = 1
        /\ auth.last.wrote = 1
        /\ auth.before.tokenFile = NoneVal
        /\ auth.tokenFile = SerializedForm(auth.last.result.value)
        /\ auth.last.result.value # auth.revoked
        /\ auth.revoked # NoCredentials =>
               auth.last.result.value.token # auth.revoked.token

\* Valid credentials were cached and saved, revoked, and the next call
\* that returned had to log in again.
C30_Witness ==
    /\ LastAuthOp = "get_credentials"
    /\ auth.last.afterRevoke
    /\ auth.last.result.kind = "returned"
    /\ auth.revoked # NoCredentials
    /\ auth.revoked.valid
    /\ auth.issued >= 2

\* C25 as stated: under the default policy a request that fails with a
\* retryable status every time is issued max_retries + 1 times before the
\* error propagates: the write request of a read-modify-write method whose
\* gets all succeed, and the get request of its inner method.
C25_EachRequestSixTimes ==
    (rmw # NoneVal /\ rmw.phase = "raised") =>
        /\ (rmw.nGet > 0 /\ rmw.getsAllRetryable) =>
               rmw.nGet = rmw.policy.max_retries + 1
        /\ (rmw.nWrite > 0 /\ rmw.writesAllRetryable /\ rmw.getsAllOk) =>
               rmw.nWrite = rmw.policy.max_retries + 1

\* C29: a write request is issued only when the get request of the same
\* attempt of the method returned a value; a get that ends in a client
\* error other than 429 is followed by no request at all and its error is
\* what the caller gets; if it was the first request, no write was ever
\* issued.
C29_WriteOnlyAfterGet ==
    rmw # NoneVal =>
        /\ rmw.nWrite > 0 =>
               /\ rmw.lastWrite.got # NoneVal
               /\ rmw.lastWrite.got.result.kind = "ok"
               /\ rmw.lastWrite.got.outer = rmw.lastWrite.outer
        /\ rmw.phase = "write" =>
               /\ rmw.lastGet.result.kind = "ok"
               /\ rmw.lastGet.outer = rmw.outer.attempt
        /\ (rmw.lastGet # NoneVal /\ rmw.lastGet.result.kind = "HttpError"
                /\ rmw.lastGet.result.status \in (400..499) \ {429}) =>
               /\ rmw.phase = "raised"
               /\ rmw.outcome.error = rmw.lastGet.result
               /\ rmw.nWrite > 0 => rmw.lastWrite.outer < rmw.lastGet.outer
               /\ rmw.nGet = 1 => rmw.nWrite = 0

\* update_event wrote once and failed retryably; on the second attempt the
\* get ended in 404 and the method raised it without writing again.
C29_Witness ==
    /\ rmw # NoneVal
    /\ rmw.op = "update_event"
    /\ rmw.phase = "raised"
    /\ rmw.nWrite = 1
    /\ rmw.lastWrite.outer = 0
    /\ rmw.lastGet = [outer |-> 1, result |-> HttpError(404)]
    /\ rmw.outcome.error = HttpError(404)

\* C26: the events of a call come one after the other in the order
\* invocation, warning, wait, invocation, ...: the k-th warning follows the
\* k-th invocation, carries attempt number k, the total max_retries + 1,
\* that invocation's status and the delay of the wait that follows it; only
\* a failure that is retried is followed by a warning and a wait, so a call
\* that has ended ends with an invocation and has warned and waited once less
\* than it has invoked.
C26_StrictlySequential ==
    /\ \A i \in 1..Len(events) :
           events[i].ev = (IF i % 3 = 1 THEN "invoke"
                           ELSE IF i % 3 = 2 THEN "warn" ELSE "sleep")
    /\ \A k \in 1..Len(Invocations) : Invocations[k].n = k
    /\ Len(Warnings) = Len(Sleeps)
    /\ \A k \in 1..Len(Warnings) :
           /\ Invocations[k].outcome.kind = "HttpError"
           /\ Warnings[k].attempt = k
           /\ Warnings[k].total = policy.max_retries + 1
           /\ Warnings[k].status = Invocations[k].outcome.status
           /\ Warnings[k].delay = Sleeps[k].delay
           /\ ~ClientFailure(Invocations[k].outcome)
           /\ k < policy.max_retries + 1
    /\ pc \in {"returned", "raised"} =>
           /\ Len(Invocations) >= 1
           /\ events[Len(events)].ev = "invoke"
           /\ Len(Warnings) = Len(Invocations) - 1
           /\ Len(Sleeps) = Len(Invocations) - 1
    /\ pc = "loop" => Len(Warnings) = Len(Invocations)

\* Two retried failures and a success: three invocations, two warnings and
\* two waits.
C26_Witness ==
    /\ pc = "returned"
    /\ Len(events) = 7
    /\ Len(Invocations) = 3
    /\ Len(Warnings) = 2
    /\ Len(Sleeps) = 2
    /\ Warnings[2].attempt = 2

\* C28: with max_retries >= 0 and an operation whose invocations end, a
\* call of the wrapper that has started ends, returning or raising; it has
\* then invoked at most max_retries + 1 times and waited at most
\* max_retries times, and its last event is an invocation, not a wait.
C28_Terminates ==
    /\ [](/\ Len(Invocations) <= policy.max_retries + 1
          /\ Len(Sleeps) <= policy.max_retries
          /\ pc \in {"returned", "raised"} =>
                 /\ Len(events) > 0
                 /\ events[Len(events)].ev = "invoke")
    /\ (pc = "loop") ~> (pc \in {"returned", "raised"})

\* A call used all its max_retries + 1 invocations and max_retries waits
\* and ended.
C28_Witness ==
    /\ pc = "raised"
    /\ policy.max_retries = 2
    /\ Len(Invocations) = 3
    /\ Len(Sleeps) = 2

\* C27 as stated: no two facades of a process hold the same client handle
\* or the same credentials object, those created by GSuiteMCPServer
\* included.
C27_FacadesShareNothing ==
    server # NoneVal =>
        \A f, g \in FacadeNames :
            f # g => /\ server.facades[f].handle # server.facades[g].handle
                     /\ server.facades[f].creds # server.facades[g].creds

=============================================================================
